---- MODULE Spec2Model ----
(***************************************************************************)
(* TrainTracker (src/app.py): station-name resolution, the train list      *)
(* between two stations, the schedule/live reconciliation and the          *)
(* minute-offset formatter, as one state machine over the Flask handlers.  *)
(*                                                                         *)
(* Python values are tagged records [t |-> <type name>, v |-> <payload>];  *)
(* a JSON object is a TLA+ function from its keys to such values, and an   *)
(* absent key is a key outside its DOMAIN.                                 *)
(***************************************************************************)
EXTENDS Integers, Sequences, FiniteSets, TLC

VARIABLES
    pc,          \* position of the request being served
    form,        \* home(): the submitted form (request.method, request.form)
    src_code,    \* home(): src_code
    dest_code,   \* home(): dest_code
    search,      \* the get_station_code call that just returned, until home() moves on
    trains_resp, \* home(): the between-stations response
    args,        \* status(): request.args
    sched_resp,  \* status(): the schedule response
    live_resp,   \* status(): the live response
    requests,    \* the upstream requests issued while serving the request
    rendered,    \* the render_template call that ended the request
    fmt          \* the last minutes_to_time call made by a template

vars == <<pc, form, src_code, dest_code, search, trains_resp, args,
          sched_resp, live_resp, requests, rendered, fmt>>

----------------------------------------------------------------------------
(* Bounds of the model *)

MaxStations == 2     \* longest station list of a search response
MaxTrains == 2       \* longest raw train list of a between-stations response
MaxRoute == 2        \* longest route of a schedule response
MaxMinutes == 61     \* minute offsets range over -MaxMinutes..MaxMinutes

----------------------------------------------------------------------------
(* Python values *)

None == [t |-> "NoneType"]
PyStr(s) == [t |-> "str", v |-> s]
PyInt(i) == [t |-> "int", v |-> i]
PyBool(b) == [t |-> "bool", v |-> b]
PyFloat(s) == [t |-> "float", v |-> s]

\* marker for "no value yet" in a variable of the model
Unset == [t |-> "unset"]

\* bool(v)
Truthy(x) ==
    CASE x.t = "NoneType" -> FALSE
      [] x.t = "bool" -> x.v
      [] x.t = "int" -> x.v # 0
      [] x.t = "str" -> x.v # ""
      [] OTHER -> TRUE

\* a == b, for the None and str values the handlers compare
PyEq(a, b) ==
    IF a.t # b.t THEN FALSE
    ELSE IF a.t = "NoneType" THEN TRUE
    ELSE a.v = b.v

\* d.get(k, default)
Get(d, k, default) == IF k \in DOMAIN d THEN d[k] ELSE default

\* isinstance(x, int): bool is a subclass of int
IsInstanceInt(x) == x.t \in {"int", "bool"}

\* the integer a bool or int stands for in arithmetic
IntOf(x) == IF x.t = "bool" THEN (IF x.v THEN 1 ELSE 0) ELSE x.v

----------------------------------------------------------------------------
(* Strings *)

UpperChars == "ABCDEFGHIJKLMNOPQRSTUVWXYZ"
LowerChars == "abcdefghijklmnopqrstuvwxyz"

\* the lower-case letter of each upper-case letter
LowerOf ==
    [c \in {SubSeq(UpperChars, i, i) : i \in 1..Len(UpperChars)} |->
        LET i == CHOOSE k \in 1..Len(UpperChars) : SubSeq(UpperChars, k, k) = c
        IN SubSeq(LowerChars, i, i)]

\* one character of str.lower()
LowerChar(c) == IF c \in DOMAIN LowerOf THEN LowerOf[c] ELSE c

\* str.lower()
RECURSIVE Lower(_)
Lower(s) ==
    IF Len(s) = 0 THEN ""
    ELSE LowerChar(SubSeq(s, 1, 1)) \o Lower(SubSeq(s, 2, Len(s)))

\* needle in hay
Contains(needle, hay) ==
    \E i \in 1..(Len(hay) - Len(needle) + 1) :
        SubSeq(hay, i, i + Len(needle) - 1) = needle

Digits == "0123456789"

\* the decimal digits of a natural number
RECURSIVE Dec(_)
Dec(n) ==
    IF n < 10 THEN SubSeq(Digits, n + 1, n + 1)
    ELSE Dec(n \div 10) \o SubSeq(Digits, (n % 10) + 1, (n % 10) + 1)

\* zero padding on the left up to a width
RECURSIVE ZeroPad(_, _)
ZeroPad(s, width) == IF Len(s) >= width THEN s ELSE ZeroPad("0" \o s, width)

\* format(n, "02d"): the sign counts towards the width
Format02d(n) ==
    IF n < 0 THEN "-" \o ZeroPad(Dec(-n), 1) ELSE ZeroPad(Dec(n), 2)

\* str(n) of an integer
StrInt(n) == IF n < 0 THEN "-" \o Dec(-n) ELSE Dec(n)

----------------------------------------------------------------------------
(* minutes_to_time *)

minutes_to_time(minutes) ==
    IF ~IsInstanceInt(minutes) THEN "N/A"
    ELSE LET hours == IntOf(minutes) \div 60
             mins == IntOf(minutes) % 60
         IN Format02d(hours) \o ":" \o Format02d(mins)

----------------------------------------------------------------------------
(* Upstream responses.  requests.get either raises, or returns a response  *)
(* with a status code whose .json() raises or returns the decoded body.    *)

RaisedResponse == [kind |-> "raise"]
BadJsonResponse(status) == [kind |-> "bad_json", status |-> status]
JsonResponse(status, body) == [kind |-> "json", status |-> status, body |-> body]

EmptyDict == << >>

\* all sequences over S of length at most n
SeqUpTo(S, n) == UNION {[1..k -> S] : k \in 0..n}

----------------------------------------------------------------------------
(* get_station_code *)

BadTokens == <<"shed", "yard", "depot", "loco", "cab", "goods">>

\* variant: the name is matched without lower-casing it
IsIrrelevantCaseSensitive(s) ==
    \E k \in 1..Len(BadTokens) : Contains(BadTokens[k], Get(s, "name", PyStr("")).v)

\* any(bad in s.get("name", "").lower() for bad in [...])
IsIrrelevant(s) ==
    LET lowered == Lower(Get(s, "name", PyStr("")).v)
    IN \E k \in 1..Len(BadTokens) : Contains(BadTokens[k], lowered)

\* the comprehension of lines 42-45
FilterStations(stations) == SelectSeq(stations, LAMBDA s : ~IsIrrelevant(s))

\* lines 47-48
ChooseCode(stations) ==
    LET filtered == FilterStations(stations)
        chosen == IF Len(filtered) > 0 THEN filtered[1] ELSE stations[1]
    IN Get(chosen, "code", None)

\* the value get_station_code returns for a name, given what the search
\* request does
get_station_code(station_name, response) ==
    IF station_name.t # "str" THEN None          \* line 26 raises, line 55
    ELSE IF response.kind = "raise" THEN None    \* line 28 raises, line 55
    ELSE IF response.status # 200 THEN None      \* line 32
    ELSE IF response.kind = "bad_json" THEN None \* line 34 raises, line 55
    ELSE LET stations ==
                 Get(Get(response.body, "data", EmptyDict), "stations", << >>)
         IN IF Len(stations) = 0 THEN None       \* line 39
            ELSE ChooseCode(stations)

(* the search responses the model draws from *)

StationNames == {"Agra", "Agra YARD", "Loco Shed", "Cabin"}
StationCodes == {"AGC", "NDLS"}

StationCandidates ==
    {[name |-> PyStr(n), code |-> PyStr(c)] : n \in StationNames, c \in StationCodes}
    \cup {[name |-> PyStr("Agra")], [name |-> PyStr("Loco Shed")],
          [code |-> PyStr("NDLS")]}

SearchBodies ==
    {EmptyDict, [data |-> EmptyDict]}
    \cup {[data |-> [stations |-> l]] : l \in SeqUpTo(StationCandidates, MaxStations)}

SearchResponses ==
    {RaisedResponse, BadJsonResponse(200), JsonResponse(500, EmptyDict)}
    \cup {JsonResponse(200, b) : b \in SearchBodies}

----------------------------------------------------------------------------
(* home: the train list *)

\* an optional key of a JSON object
Absent == [t |-> "absent"]
Field(k, x) == IF x = Absent THEN EmptyDict ELSE (k :> x)

\* how an f-string or str() shows a value
PyFormat(x) ==
    CASE x.t = "str" -> x.v
      [] x.t = "int" -> StrInt(x.v)
      [] x.t = "bool" -> (IF x.v THEN "True" ELSE "False")
      [] OTHER -> "None"

\* t.get('travelTimeMinutes', 0) // 60 and % 60 raise a TypeError on None
IsNumber(x) == x.t \in {"int", "bool"}

\* line 90
StopsAtBoth(from_sched, to_sched) ==
    /\ Truthy(Get(from_sched, "stopsAt", PyBool(TRUE)))
    /\ Truthy(Get(to_sched, "stopsAt", PyBool(TRUE)))

\* lines 91-99: the summary of one raw record
Summary(t) ==
    LET from_sched == Get(t, "fromStationSchedule", EmptyDict)
        to_sched == Get(t, "toStationSchedule", EmptyDict)
        travel == Get(t, "travelTimeMinutes", PyInt(0))
    IN [number |-> Get(t, "trainNumber", PyStr("N/A")),
        name |-> Get(t, "trainName", PyStr("N/A")),
        type |-> Get(t, "type", PyStr("N/A")),
        departure |-> minutes_to_time(Get(from_sched, "departureMinutes", None)),
        arrival |-> minutes_to_time(Get(to_sched, "arrivalMinutes", None)),
        duration |-> StrInt(IntOf(travel) \div 60) \o "h "
                     \o StrInt(IntOf(travel) % 60) \o "m",
        days |-> PyFormat(Get(t, "runningDaysBitmap", PyStr("N/A")))]

\* lines 86-99: the loop appends to trains in place; a record whose summary
\* raises ends the loop with the summaries appended so far left in trains
RECURSIVE BuildTrains(_, _)
BuildTrains(trains_data, trains) ==
    IF Len(trains_data) = 0 THEN [trains |-> trains, raised |-> FALSE]
    ELSE LET t == Head(trains_data)
             from_sched == Get(t, "fromStationSchedule", EmptyDict)
             to_sched == Get(t, "toStationSchedule", EmptyDict)
         IN IF StopsAtBoth(from_sched, to_sched)
            THEN IF IsNumber(Get(t, "travelTimeMinutes", PyInt(0)))
                 THEN BuildTrains(Tail(trains_data), Append(trains, Summary(t)))
                 ELSE [trains |-> trains, raised |-> TRUE]
            ELSE BuildTrains(Tail(trains_data), trains)

\* variant: the types are compared without lower-casing them
TypeMatchesExact(t, selected_type) == t.type.v = selected_type

\* t["type"].lower() == selected_type.lower()

TypeMatches(t, selected_type) == Lower(t.type.v) = Lower(selected_type)

\* lines 102-103: the comprehension raises on a type that is no string, and
\* then trains keeps the unfiltered list
FilterByType(trains, selected_type) ==
    IF selected_type = "ALL" THEN [trains |-> trains, raised |-> FALSE]
    ELSE IF \E i \in 1..Len(trains) : trains[i].type.t # "str"
         THEN [trains |-> trains, raised |-> TRUE]
         ELSE [trains |-> SelectSeq(trains, LAMBDA t : TypeMatches(t, selected_type)),
               raised |-> FALSE]

\* lines 82-84
TrainsData(data) ==
    LET first == Get(Get(data, "data", EmptyDict), "TrainsBetweenStationsResult", << >>)
    IN IF Len(first) = 0
       THEN Get(Get(data, "data", EmptyDict), "trains", << >>)
       ELSE first

NoTrainsError == "No trains found for selected type or route."
FetchError == "Error fetching train data. Please try again later."

\* lines 106-107
ErrorWhenEmpty(trains) == IF Len(trains) = 0 THEN PyStr(NoTrainsError) ELSE None

\* lines 76-111: trains and error after the try block, given the response
ListTrains(response, selected_type) ==
    IF response.kind # "json"                    \* line 79 or 80 raises
    THEN [trains |-> << >>, error |-> PyStr(FetchError)]
    ELSE LET built == BuildTrains(TrainsData(response.body), << >>)
             filtered == FilterByType(built.trains, selected_type)
         IN IF built.raised
            THEN [trains |-> built.trains, error |-> PyStr(FetchError)]
            ELSE IF filtered.raised
            THEN [trains |-> built.trains, error |-> PyStr(FetchError)]
            ELSE [trains |-> filtered.trains, error |-> ErrorWhenEmpty(filtered.trains)]

\* line 74
InvalidStationsError(src_name, dest_name) ==
    "Invalid station names entered. Try '" \o PyFormat(src_name) \o "' and '"
        \o PyFormat(dest_name) \o "'."

\* lines 113-119
RenderIndex(trains, error, selected_type) ==
    [template |-> "index.html", trains |-> trains, error |-> error,
     selected_type |-> selected_type]

(* the forms and between-stations responses the model draws from *)

Form(source, destination, train_type) ==
    Field("source", source) @@ Field("destination", destination)
        @@ Field("train_type", train_type)

Forms ==
    {Form(PyStr("agra"), PyStr("delhi"), ty) :
        ty \in {Absent, PyStr("express"), PyStr("MAIL")}}
    \cup {Form(Absent, PyStr("delhi"), Absent), Form(PyStr("agra"), Absent, Absent)}

StopsAtValues == {Absent, PyBool(TRUE), PyBool(FALSE), None}

Schedule(stops, minutesKey, minutes) ==
    Field("stopsAt", stops) @@ Field(minutesKey, minutes)

RawTrain(number, type, travel, from_stops, to_stops) ==
    Field("trainNumber", number) @@ Field("trainName", PyStr("Shatabdi"))
    @@ Field("type", type) @@ Field("travelTimeMinutes", travel)
    @@ ("fromStationSchedule" :> Schedule(from_stops, "departureMinutes", PyInt(125)))
    @@ ("toStationSchedule" :> Schedule(to_stops, "arrivalMinutes", PyInt(260)))

RawTrains ==
    {RawTrain(PyStr("12002"), PyStr("EXPRESS"), PyInt(135), f, Absent) :
        f \in StopsAtValues}
    \cup {RawTrain(PyStr("12004"), PyStr("Express"), PyInt(135), PyBool(TRUE), t) :
        t \in {PyBool(FALSE), None}}
    \cup {RawTrain(PyStr("12006"), ty, Absent, Absent, Absent) :
        ty \in {PyStr("Mail"), Absent, None}}
    \cup {RawTrain(Absent, PyStr("MAIL"), None, PyBool(TRUE), PyBool(TRUE))}

TrainsBodies ==
    {EmptyDict}
    \cup {[data |-> [TrainsBetweenStationsResult |-> l]] :
            l \in SeqUpTo(RawTrains, MaxTrains)}
    \cup {[data |-> [TrainsBetweenStationsResult |-> << >>, trains |-> l]] :
            l \in SeqUpTo(RawTrains, MaxTrains)}
    \cup {[data |-> [trains |-> l]] : l \in SeqUpTo(RawTrains, MaxTrains)}

TrainsResponses ==
    {RaisedResponse, BadJsonResponse(200)}
    \cup {JsonResponse(200, b) : b \in TrainsBodies}

----------------------------------------------------------------------------
(* status: the schedule/live reconciliation *)

IsDigits(s) ==
    /\ Len(s) > 0
    /\ \A i \in 1..Len(s) : Contains(SubSeq(s, i, i), Digits)

DigitValue(c) == (CHOOSE k \in 1..10 : SubSeq(Digits, k, k) = c) - 1

RECURSIVE ToNat(_)
ToNat(s) ==
    IF Len(s) = 0 THEN 0
    ELSE 10 * ToNat(SubSeq(s, 1, Len(s) - 1)) + DigitValue(SubSeq(s, Len(s), Len(s)))

DashesOf(s) == {i \in 1..Len(s) : SubSeq(s, i, i) = "-"}

IsLeap(y) == (y % 4 = 0 /\ y % 100 # 0) \/ y % 400 = 0

DaysInMonth(y, m) ==
    IF m = 2 THEN (IF IsLeap(y) THEN 29 ELSE 28)
    ELSE IF m \in {4, 6, 9, 11} THEN 30 ELSE 31

\* datetime.strptime(s, "%Y-%m-%d"): %Y takes four digits, %m and %d one or
\* two; the result is the date, or a ValueError
Strptime(s) ==
    LET dashes == DashesOf(s)
        d1 == CHOOSE i \in dashes : \A j \in dashes : i <= j
        d2 == CHOOSE i \in dashes : \A j \in dashes : j <= i
        ys == SubSeq(s, 1, d1 - 1)
        ms == SubSeq(s, d1 + 1, d2 - 1)
        ds == SubSeq(s, d2 + 1, Len(s))
    IN IF Cardinality(dashes) # 2 THEN [ok |-> FALSE]
       ELSE IF ~(IsDigits(ys) /\ Len(ys) = 4 /\ IsDigits(ms) /\ Len(ms) <= 2
                 /\ IsDigits(ds) /\ Len(ds) <= 2) THEN [ok |-> FALSE]
       ELSE IF ~(ToNat(ys) >= 1 /\ ToNat(ms) \in 1..12
                 /\ ToNat(ds) \in 1..DaysInMonth(ToNat(ys), ToNat(ms)))
            THEN [ok |-> FALSE]
       ELSE [ok |-> TRUE, year |-> ToNat(ys), month |-> ToNat(ms), day |-> ToNat(ds)]

\* .strftime("%Y-%m-%d")
Strftime(d) ==
    Dec(d.year) \o "-" \o ZeroPad(Dec(d.month), 2) \o "-"
        \o ZeroPad(Dec(d.day), 2)

\* lines 133-136
ConvertDate(journey_date) ==
    LET parsed == Strptime(journey_date)
    IN IF parsed.ok THEN Strftime(parsed) ELSE journey_date

\* line 131
MissingArgsError == "Please enter both Train Number and Journey Date"
\* line 146
ScheduleNotFoundError == "Train schedule not found."
\* line 192
StatusFetchError == "Error fetching train information."

RenderStatusError(message) == [template |-> "live_status.html", error |-> message]

\* line 130
ArgsMissing(a) ==
    \/ ~Truthy(Get(a, "train_number", None))
    \/ ~Truthy(Get(a, "journey_date", None))

\* variant: the flag defaults to true when the response carries none
ScheduleSucceededDefaultTrue(schedule_data) ==
    Truthy(Get(schedule_data, "success", PyBool(TRUE)))

\* line 145
ScheduleSucceeded(schedule_data) == Truthy(Get(schedule_data, "success", None))

\* lines 148-149 raise a KeyError on a missing key
ScheduleHasData(schedule_data) ==
    /\ "data" \in DOMAIN schedule_data
    /\ "train" \in DOMAIN schedule_data.data
    /\ "route" \in DOMAIN schedule_data.data

\* line 152
LiveData(response) == IF response.status = 200 THEN response.body ELSE EmptyDict

\* line 158
LiveSucceeded(live_data) == Truthy(Get(live_data, "success", None))

NoLiveDataMessage == "No live data available."
RunningBetweenMessage == "Train is currently running between stations."
UnavailableMessage == "Train status is currently unavailable."

\* variant: the RUNNING_BETWEEN branch is missing
StatusMessageNoRunning(status, current_station) ==
    IF PyEq(status, PyStr("AT_STATION"))
    THEN "Train is currently standing at " \o PyFormat(current_station) \o "."
    ELSE UnavailableMessage

\* lines 165-170
StatusMessage(status, current_station) ==
    IF PyEq(status, PyStr("AT_STATION"))
    THEN "Train is currently standing at " \o PyFormat(current_station) \o "."
    ELSE IF PyEq(status, PyStr("RUNNING_BETWEEN"))
    THEN RunningBetweenMessage
    ELSE UnavailableMessage

\* lines 154-170: current_station, delay and status_message
LiveState(live_data) ==
    IF LiveSucceeded(live_data)
    THEN LET live_info == live_data.data
             current_loc == Get(live_info, "currentLocation", EmptyDict)
             current_station == Get(current_loc, "stationCode", PyStr("N/A"))
             status == Get(current_loc, "status", PyStr("UNKNOWN"))
         IN [current_station |-> current_station,
             delay |-> Get(live_info, "overallDelayMinutes", PyInt(0)),
             status_message |-> StatusMessage(status, current_station)]
    ELSE [current_station |-> None, delay |-> None,
          status_message |-> NoLiveDataMessage]

\* line 173, right-hand side
IsCurrent(stop, current_station) == PyEq(stop.station.code, current_station)

\* variant: the loop stops flagging after the first match
MarkFirstMatch(route, current_station) ==
    [i \in 1..Len(route) |->
        ("isCurrent" :> (/\ IsCurrent(route[i], current_station)
                         /\ \A j \in 1..(i - 1) :
                                ~IsCurrent(route[j], current_station)))
        @@ route[i]]

\* lines 172-173
MarkRoute(route, current_station) ==
    [i \in 1..Len(route) |->
        ("isCurrent" :> IsCurrent(route[i], current_station)) @@ route[i]]

\* stop["station"]["code"] raises a KeyError on a stop without a code
RouteHasCodes(route) == \A i \in 1..Len(route) : "code" \in DOMAIN route[i].station

\* lines 177-180 raise a KeyError on missing train fields
TrainInfoComplete(train_info) ==
    /\ {"number", "name", "source", "destination"} \subseteq DOMAIN train_info
    /\ "name" \in DOMAIN train_info.source
    /\ "name" \in DOMAIN train_info.destination

\* lines 151-192 after the live response: the render_template call
Reconcile(schedule_data, response, converted_date) ==
    IF response.kind = "raise" THEN RenderStatusError(StatusFetchError)
    ELSE IF response.status = 200 /\ response.kind = "bad_json"
    THEN RenderStatusError(StatusFetchError)
    ELSE LET live_data == LiveData(response)
             train_info == schedule_data.data.train
             route == schedule_data.data.route
         IN IF LiveSucceeded(live_data) /\ "data" \notin DOMAIN live_data
            THEN RenderStatusError(StatusFetchError)
            ELSE IF ~RouteHasCodes(route) \/ ~TrainInfoComplete(train_info)
            THEN RenderStatusError(StatusFetchError)
            ELSE LET live == LiveState(live_data)
                 IN [template |-> "live_status.html",
                     train_number |-> train_info.number,
                     train_name |-> train_info.name,
                     source |-> train_info.source.name,
                     destination |-> train_info.destination.name,
                     journey_date |-> converted_date,
                     current_station |-> live.current_station,
                     delay |-> live.delay,
                     status_message |-> live.status_message,
                     route |-> MarkRoute(route, live.current_station)]

(* the query arguments and upstream responses the model draws from *)

JourneyDates == {"2024-03-05", "2024-3-5", "2023-02-29"}

StatusArgs ==
    {Field("train_number", n) @@ Field("journey_date", d) :
        n \in {Absent, PyStr("12002")},
        d \in {Absent, PyStr("")} \cup {PyStr(x) : x \in JourneyDates}}

RouteCodes == {PyStr("NDLS"), PyStr("AGC"), None}

RouteStops ==
    {[station |-> [code |-> c]] : c \in RouteCodes} \cup {[station |-> EmptyDict]}

TrainInfos ==
    {[number |-> PyStr("12002"), name |-> PyStr("Shatabdi"),
      source |-> [name |-> PyStr("New Delhi")],
      destination |-> [name |-> PyStr("Agra Cantt")]],
     [number |-> PyStr("12002")]}

ScheduleBodies ==
    {EmptyDict, [success |-> PyBool(FALSE)], [success |-> PyBool(TRUE)],
     [success |-> PyBool(TRUE), data |-> [train |-> [number |-> PyStr("12002")]]]}
    \cup {Field("success", ok) @@ ("data" :> [train |-> ti, route |-> r]) :
            ok \in {Absent, PyBool(FALSE), PyBool(TRUE)}, ti \in TrainInfos,
            r \in SeqUpTo(RouteStops, MaxRoute)}

ScheduleResponses ==
    {RaisedResponse, BadJsonResponse(200), BadJsonResponse(404)}
    \cup {JsonResponse(200, b) : b \in ScheduleBodies}

LiveStatuses == {Absent, PyStr("AT_STATION"), PyStr("RUNNING_BETWEEN"), PyStr("HALTED")}
LiveCodes == {Absent, PyStr("NDLS"), PyStr("AGC"), None}
LiveDelays == {Absent, PyInt(15), None}

LiveLocations ==
    {Absent} \cup {Field("stationCode", c) @@ Field("status", st) :
                      c \in LiveCodes, st \in LiveStatuses}

LiveBodies ==
    {EmptyDict, [success |-> PyBool(FALSE)], [success |-> PyBool(TRUE)]}
    \cup {Field("success", ok)
          @@ ("data" :> (Field("currentLocation", loc)
                         @@ Field("overallDelayMinutes", dl))) :
            ok \in {PyBool(TRUE)}, loc \in LiveLocations, dl \in LiveDelays}
    \cup {[success |-> PyBool(FALSE),
           data |-> [currentLocation |-> [stationCode |-> PyStr("NDLS"),
                                          status |-> PyStr("AT_STATION")]]]}

LiveResponses ==
    {RaisedResponse, BadJsonResponse(200), BadJsonResponse(503),
     JsonResponse(503, [success |-> PyBool(TRUE),
                        data |-> [currentLocation |->
                                     [stationCode |-> PyStr("NDLS"),
                                      status |-> PyStr("AT_STATION")]]])}
    \cup {JsonResponse(200, b) : b \in LiveBodies}

----------------------------------------------------------------------------
(* The state machine.  One request is served at a time; its positions are  *)
(* the upstream calls it waits on.                                         *)

MinuteInputs ==
    {PyInt(i) : i \in (-MaxMinutes)..MaxMinutes}
    \cup {PyInt(125), PyInt(1439), PyInt(1500), PyInt(6000), PyInt(6125)}
    \cup {PyBool(TRUE), PyBool(FALSE), None, PyFloat("90.5"), PyStr("125")}

Init ==
    /\ pc = "idle"
    /\ form = Unset
    /\ src_code = Unset
    /\ dest_code = Unset
    /\ search = Unset
    /\ trains_resp = Unset
    /\ args = Unset
    /\ sched_resp = Unset
    /\ live_resp = Unset
    /\ requests = << >>
    /\ rendered = Unset
    /\ fmt = Unset

\* the response has been sent; the next request starts from fresh locals
NextRequest ==
    /\ pc = "done"
    /\ pc' = "idle"
    /\ form' = Unset
    /\ src_code' = Unset
    /\ dest_code' = Unset
    /\ search' = Unset
    /\ trains_resp' = Unset
    /\ args' = Unset
    /\ sched_resp' = Unset
    /\ live_resp' = Unset
    /\ requests' = << >>
    /\ rendered' = Unset
    /\ fmt' = Unset

\* minutes_to_time called on a value (lines 12-17; 127-128 from a template)
FormatMinutes(minutes) ==
    /\ pc = "idle"
    /\ fmt' = [minutes |-> minutes, result |-> minutes_to_time(minutes)]
    /\ pc' = "done"
    /\ UNCHANGED <<form, src_code, dest_code, search, trains_resp, args,
                   sched_resp, live_resp, requests, rendered>>

\* GET /: lines 60-64 and 113-119
HomeGet ==
    /\ pc = "idle"
    /\ form' = [method |-> "GET"]
    /\ rendered' = RenderIndex(<< >>, None, "ALL")
    /\ pc' = "done"
    /\ UNCHANGED <<src_code, dest_code, search, trains_resp, args, sched_resp,
                   live_resp, requests, fmt>>

\* whether get_station_code gets as far as its request (line 28)
SearchIssued(station_name) == station_name.t = "str"

\* the upstream requests issued so far, with a station search added
LogSearch(station_name) ==
    IF SearchIssued(station_name)
    THEN Append(requests, [kind |-> "search", q |-> station_name.v])
    ELSE requests

\* the frame of a get_station_code call once it has returned
StationCall(station_name, response) ==
    [name |-> station_name,
     issued |-> SearchIssued(station_name),
     response |-> IF SearchIssued(station_name) THEN response ELSE Unset,
     result |-> get_station_code(station_name, response)]

\* POST /: lines 60-70, up to the request of the first get_station_code call
HomePost(f) ==
    /\ pc = "idle"
    /\ form' = [method |-> "POST", form |-> f]
    /\ requests' = LogSearch(Get(f, "source", None))
    /\ pc' = "src_search"
    /\ UNCHANGED <<src_code, dest_code, search, trains_resp, args, sched_resp,
                   live_resp, rendered, fmt>>

src_name == Get(form.form, "source", None)
dest_name == Get(form.form, "destination", None)
selected_type == Get(form.form, "train_type", PyStr("ALL")).v

\* line 70: get_station_code(src_name) returns
SrcSearchReturns(response) ==
    /\ pc = "src_search"
    /\ SearchIssued(src_name) \/ response = RaisedResponse
    /\ search' = StationCall(src_name, response)
    /\ src_code' = get_station_code(src_name, response)
    /\ pc' = "dest_call"
    /\ UNCHANGED <<form, dest_code, trains_resp, args, sched_resp, live_resp,
                   requests, rendered, fmt>>

\* line 71: get_station_code(dest_name) is called, up to its request
DestCall ==
    /\ pc = "dest_call"
    /\ search' = Unset
    /\ requests' = LogSearch(dest_name)
    /\ pc' = "dest_search"
    /\ UNCHANGED <<form, src_code, dest_code, trains_resp, args, sched_resp,
                   live_resp, rendered, fmt>>

\* line 71: get_station_code(dest_name) returns
DestSearchReturns(response) ==
    /\ pc = "dest_search"
    /\ SearchIssued(dest_name) \/ response = RaisedResponse
    /\ search' = StationCall(dest_name, response)
    /\ dest_code' = get_station_code(dest_name, response)
    /\ pc' = "check_codes"
    /\ UNCHANGED <<form, src_code, trains_resp, args, sched_resp, live_resp,
                   requests, rendered, fmt>>

\* lines 73-79: the codes are checked and the between-stations request issued
HomeCheckCodes ==
    /\ pc = "check_codes"
    /\ search' = Unset
    /\ IF ~Truthy(src_code) \/ ~Truthy(dest_code)
       THEN /\ rendered' = RenderIndex(<< >>,
                               PyStr(InvalidStationsError(src_name, dest_name)),
                               selected_type)
            /\ requests' = requests
            /\ pc' = "done"
       ELSE /\ rendered' = rendered
            /\ requests' = Append(requests,
                                  [kind |-> "between", from |-> src_code.v,
                                   to |-> dest_code.v])
            /\ pc' = "home_trains"
    /\ UNCHANGED <<form, src_code, dest_code, trains_resp, args, sched_resp,
                   live_resp, fmt>>

\* lines 79-119
HomeListTrains(response) ==
    /\ pc = "home_trains"
    /\ trains_resp' = response
    /\ LET out == ListTrains(response, selected_type)
       IN rendered' = RenderIndex(out.trains, out.error, selected_type)
    /\ pc' = "done"
    /\ UNCHANGED <<form, src_code, dest_code, search, args, sched_resp,
                   live_resp, requests, fmt>>

train_number == Get(args, "train_number", None)
journey_date == Get(args, "journey_date", None)
converted_date == ConvertDate(journey_date.v)

\* lines 124-142, up to the schedule request
StatusBegin(a) ==
    /\ pc = "idle"
    /\ args' = a
    /\ IF ArgsMissing(a)
       THEN /\ rendered' = RenderStatusError(MissingArgsError)
            /\ requests' = requests
            /\ pc' = "done"
       ELSE /\ rendered' = rendered
            /\ requests' = <<[kind |-> "schedule", train |-> a.train_number.v,
                              date |-> ConvertDate(a.journey_date.v)]>>
            /\ pc' = "status_sched"
    /\ UNCHANGED <<form, src_code, dest_code, search, trains_resp, sched_resp,
                   live_resp, fmt>>

\* lines 142-151: the schedule response, up to the live request
StatusSchedule(response) ==
    /\ pc = "status_sched"
    /\ sched_resp' = response
    /\ IF response.kind # "json"
       THEN /\ rendered' = RenderStatusError(StatusFetchError)
            /\ requests' = requests
            /\ pc' = "done"
       ELSE IF ~ScheduleSucceeded(response.body)
       THEN /\ rendered' = RenderStatusError(ScheduleNotFoundError)
            /\ requests' = requests
            /\ pc' = "done"
       ELSE IF ~ScheduleHasData(response.body)
       THEN /\ rendered' = RenderStatusError(StatusFetchError)
            /\ requests' = requests
            /\ pc' = "done"
       ELSE /\ rendered' = rendered
            /\ requests' = Append(requests,
                                  [kind |-> "live", train |-> train_number.v,
                                   date |-> converted_date])
            /\ pc' = "status_live"
    /\ UNCHANGED <<form, src_code, dest_code, search, trains_resp, args,
                   live_resp, fmt>>

\* lines 151-192: the live response and the rendering
StatusLive(response) ==
    /\ pc = "status_live"
    /\ live_resp' = response
    /\ rendered' = Reconcile(sched_resp.body, response, converted_date)
    /\ pc' = "done"
    /\ UNCHANGED <<form, src_code, dest_code, search, trains_resp, args,
                   sched_resp, requests, fmt>>

Next ==
    \/ \E m \in MinuteInputs : FormatMinutes(m)
    \/ HomeGet
    \/ \E f \in Forms : HomePost(f)
    \/ \E r \in SearchResponses : SrcSearchReturns(r)
    \/ DestCall
    \/ \E r \in SearchResponses : DestSearchReturns(r)
    \/ HomeCheckCodes
    \/ \E r \in TrainsResponses : HomeListTrains(r)
    \/ \E a \in StatusArgs : StatusBegin(a)
    \/ \E r \in ScheduleResponses : StatusSchedule(r)
    \/ \E r \in LiveResponses : StatusLive(r)
    \/ NextRequest

Spec == Init /\ [][Next]_vars


----------------------------------------------------------------------------
(* Properties *)

\* the station list of a search that succeeded (status 200, decoded body)
SearchSucceeded ==
    /\ search # Unset
    /\ search.issued
    /\ search.response.kind = "json"
    /\ search.response.status = 200

SearchedStations ==
    Get(Get(search.response.body, "data", EmptyDict), "stations", << >>)

ExcludedTokens == {"shed", "yard", "depot", "loco", "cab", "goods"}

\* the candidate's name, lower-cased, contains one of the tokens
Excluded(s) ==
    \E tok \in ExcludedTokens :
        Contains(tok, Lower(IF "name" \in DOMAIN s THEN s.name.v ELSE ""))

CodeOf(s) == IF "code" \in DOMAIN s THEN s.code ELSE None

\* C1: for a non-empty candidate list of a successful search,
\* get_station_code returns the code of the first candidate whose lower-cased
\* name contains none of the tokens, and the code of the first candidate of
\* the list only when every candidate contains one.
C1_FirstRelevantElseFirst ==
    (SearchSucceeded /\ Len(SearchedStations) > 0) =>
        LET st == SearchedStations
        IN IF \E i \in 1..Len(st) : ~Excluded(st[i])
           THEN \E i \in 1..Len(st) :
                    /\ ~Excluded(st[i])
                    /\ \A j \in 1..(i - 1) : Excluded(st[j])
                    /\ search.result = CodeOf(st[i])
           ELSE search.result = CodeOf(st[1])

\* an excluded candidate comes first, a relevant one with another code
\* second, and the second one's code is returned
C1_Witness ==
    /\ SearchSucceeded
    /\ Len(SearchedStations) = 2
    /\ Excluded(SearchedStations[1])
    /\ ~Excluded(SearchedStations[2])
    /\ CodeOf(SearchedStations[1]) = PyStr("AGC")
    /\ CodeOf(SearchedStations[2]) = PyStr("NDLS")
    /\ search.result = PyStr("NDLS")
    /\ src_code = PyStr("NDLS")

\* C2: get_station_code returns None exactly when the search returned an
\* empty station list, and in no other case (not for a non-200 status, a
\* raised exception or a chosen candidate without a code).
C2_NoneExactlyWhenEmpty ==
    search # Unset =>
        (search.result = None <=> (SearchSucceeded /\ Len(SearchedStations) = 0))

\* the success flag of a decoded response body is true
FlagTrue(body) == "success" \in DOMAIN body /\ body.success = PyBool(TRUE)

LiveRequested == \E i \in 1..Len(requests) : requests[i].kind = "live"

\* C3: when the schedule response's success flag is false or absent the
\* request ends with "Train schedule not found." and no live request is
\* issued; a live request is issued only after a schedule request whose
\* response reported success.
C3_LiveOnlyAfterScheduleSuccess ==
    /\ (sched_resp # Unset /\ sched_resp.kind = "json" /\ ~FlagTrue(sched_resp.body)) =>
          /\ pc = "done"
          /\ rendered = [template |-> "live_status.html",
                         error |-> "Train schedule not found."]
          /\ ~LiveRequested
          /\ live_resp = Unset
    /\ \A i \in 1..Len(requests) :
          requests[i].kind = "live" =>
              /\ \E j \in 1..(i - 1) : requests[j].kind = "schedule"
              /\ sched_resp # Unset
              /\ sched_resp.kind = "json"
              /\ FlagTrue(sched_resp.body)
    /\ live_resp # Unset => LiveRequested

\* a schedule that carries a route and a train but no true success flag
C3_Witness ==
    /\ pc = "done"
    /\ sched_resp # Unset
    /\ sched_resp.kind = "json"
    /\ ~FlagTrue(sched_resp.body)
    /\ "data" \in DOMAIN sched_resp.body
    /\ Len(sched_resp.body.data.route) > 0
    /\ rendered.error = "Train schedule not found."
    /\ Len(requests) = 1

\* the request ended with the view, not with an error page
ViewRendered ==
    /\ pc = "done"
    /\ rendered # Unset
    /\ rendered.template = "live_status.html"
    /\ "error" \notin DOMAIN rendered

\* the live fetch failed: a status other than 200, or no true success flag
LiveFailed ==
    /\ live_resp # Unset
    /\ live_resp.kind # "raise"
    /\ \/ live_resp.status # 200
       \/ live_resp.kind = "json" /\ ~FlagTrue(live_resp.body)

\* C4: with the schedule fetched and the live fetch failed, the view has
\* statusMessage "No live data available.", currentStationCode null,
\* delayMinutes null and isCurrent false on every stop, also on stops whose
\* station code is null.
C4_NoLiveDataView ==
    (LiveFailed /\ ViewRendered) =>
        /\ rendered.status_message = "No live data available."
        /\ rendered.current_station = None
        /\ rendered.delay = None
        /\ \A i \in 1..Len(rendered.route) : ~rendered.route[i].isCurrent

\* the live fetch succeeded: status 200 and a true success flag
LiveOk ==
    /\ live_resp # Unset
    /\ live_resp.kind = "json"
    /\ live_resp.status = 200
    /\ FlagTrue(live_resp.body)

LiveLocation ==
    IF "currentLocation" \in DOMAIN live_resp.body.data
    THEN live_resp.body.data.currentLocation
    ELSE EmptyDict

LiveStatusIs(st) ==
    "status" \in DOMAIN LiveLocation /\ LiveLocation.status = PyStr(st)

Shown(c) == IF c.t = "str" THEN c.v ELSE "None"

\* C5: with both fetches succeeded, status AT_STATION and station code c,
\* the view's message is "Train is currently standing at c." and a stop is
\* flagged isCurrent exactly when its station code equals c.
C5_AtStationFlagsMatchingStops ==
    (LiveOk /\ ViewRendered /\ LiveStatusIs("AT_STATION")
        /\ "stationCode" \in DOMAIN LiveLocation) =>
        LET c == LiveLocation.stationCode
        IN /\ rendered.status_message
                = "Train is currently standing at " \o Shown(c) \o "."
           /\ \A i \in 1..Len(rendered.route) :
                  rendered.route[i].isCurrent
                      <=> (sched_resp.body.data.route[i].station.code = c)

\* the train stands at NDLS, which the route holds twice
C5_Witness ==
    /\ LiveOk
    /\ ViewRendered
    /\ LiveStatusIs("AT_STATION")
    /\ "stationCode" \in DOMAIN LiveLocation
    /\ LiveLocation.stationCode = PyStr("NDLS")
    /\ Len(rendered.route) = 2
    /\ rendered.route[1].isCurrent
    /\ rendered.route[2].isCurrent
    /\ rendered.status_message = "Train is currently standing at NDLS."

\* the between-stations response was decoded
TrainsFetched == trains_resp # Unset /\ trains_resp.kind = "json"

RawRecords == TrainsData(trains_resp.body)
Built == BuildTrains(RawRecords, << >>)
Filtered == FilterByType(Built.trains, rendered.selected_type)

\* neither endpoint's stopsAt is explicitly false
NotExplicitlyFalse(t) ==
    /\ ~("fromStationSchedule" \in DOMAIN t
         /\ "stopsAt" \in DOMAIN t.fromStationSchedule
         /\ t.fromStationSchedule.stopsAt = PyBool(FALSE))
    /\ ~("toStationSchedule" \in DOMAIN t
         /\ "stopsAt" \in DOMAIN t.toStationSchedule
         /\ t.toStationSchedule.stopsAt = PyBool(FALSE))

NumberOf(t) == IF "trainNumber" \in DOMAIN t THEN t.trainNumber ELSE PyStr("N/A")

NumbersOf(records) == [i \in 1..Len(records) |-> NumberOf(records[i])]

SummaryNumbers(trains) == [i \in 1..Len(trains) |-> trains[i].number]

\* C6: the train list before type filtering holds a summary for a raw record
\* exactly when neither endpoint's stopsAt is explicitly false.
C6_IncludedUnlessExplicitlyFalse ==
    (TrainsFetched /\ ~Built.raised) =>
        SummaryNumbers(Built.trains)
            = NumbersOf(SelectSeq(RawRecords, NotExplicitlyFalse))

\* the type equals trainType ignoring case
SameTypeIgnoringCase(t, trainType) == Lower(t.type.v) = Lower(trainType)

ExpectedList ==
    IF rendered.selected_type = "ALL" THEN Built.trains
    ELSE SelectSeq(Built.trains,
                   LAMBDA t : SameTypeIgnoringCase(t, rendered.selected_type))

ListCompleted == TrainsFetched /\ ~Built.raised /\ ~Filtered.raised

WellFormedClock(s, minutes) ==
    /\ Len(s) >= 5
    /\ SubSeq(s, Len(s) - 2, Len(s) - 2) = ":"
    /\ IsDigits(SubSeq(s, 1, Len(s) - 3))
    /\ IsDigits(SubSeq(s, Len(s) - 1, Len(s)))
    /\ ToNat(SubSeq(s, 1, Len(s) - 3)) = minutes \div 60
    /\ ToNat(SubSeq(s, Len(s) - 1, Len(s))) = minutes % 60

\* C8: minutes_to_time returns a well-formed HH:MM for every integer
\* (negative ones and booleans included) and "N/A" for everything else.
C8_TotalClockTime ==
    fmt # Unset =>
        IF fmt.minutes.t = "int" THEN WellFormedClock(fmt.result, fmt.minutes.v)
        ELSE IF fmt.minutes.t = "bool"
        THEN WellFormedClock(fmt.result, IF fmt.minutes.v THEN 1 ELSE 0)
        ELSE fmt.result = "N/A"

\* C9: when the fetch, the summary construction or the type filter raises,
\* the outcome carries the error and an empty train list.
C9_NoPartialResults ==
    (trains_resp # Unset /\ ~ListCompleted) =>
        /\ rendered.error # None
        /\ rendered.trains = << >>

LiveInfo == live_resp.body.data

ExpectedMessage ==
    IF LiveStatusIs("RUNNING_BETWEEN")
    THEN "Train is currently running between stations."
    ELSE "Train status is currently unavailable."

ExpectedDelay ==
    IF "overallDelayMinutes" \in DOMAIN LiveInfo
    THEN LiveInfo.overallDelayMinutes
    ELSE PyInt(0)

\* C10: with the live fetch succeeded, the message follows the live status
\* (RUNNING_BETWEEN, or unavailable for anything but AT_STATION), never
\* "No live data available."; delayMinutes is the overall delay or 0 when
\* absent; currentStationCode is the reported code, or null when none is
\* reported.
C10_NullStationWhenUnreported ==
    (LiveOk /\ ViewRendered) =>
        /\ ~LiveStatusIs("AT_STATION") => rendered.status_message = ExpectedMessage
        /\ rendered.status_message # "No live data available."
        /\ rendered.delay = ExpectedDelay
        /\ rendered.current_station =
              IF "stationCode" \in DOMAIN LiveLocation
              THEN LiveLocation.stationCode
              ELSE None

\* C10, amended: as C10, but currentStationCode is the string "N/A" when
\* the live data reports no station code.
C10_PlaceholderStationWhenUnreported ==
    (LiveOk /\ ViewRendered) =>
        /\ ~LiveStatusIs("AT_STATION") => rendered.status_message = ExpectedMessage
        /\ rendered.status_message # "No live data available."
        /\ rendered.delay = ExpectedDelay
        /\ rendered.current_station =
              IF "stationCode" \in DOMAIN LiveLocation
              THEN LiveLocation.stationCode
              ELSE PyStr("N/A")

\* a running train whose live data reports neither a station code nor a delay
C10_Witness ==
    /\ LiveOk
    /\ ViewRendered
    /\ LiveStatusIs("RUNNING_BETWEEN")
    /\ "stationCode" \notin DOMAIN LiveLocation
    /\ "overallDelayMinutes" \notin DOMAIN LiveInfo
    /\ rendered.current_station = PyStr("N/A")
    /\ rendered.delay = PyInt(0)
    /\ rendered.status_message = "Train is currently running between stations."

====
